---- MODULE Spec2Model ----
(***************************************************************************)
(* Model of src/trading_bot.py: the TradingBot ledger (capital, posicoes,  *)
(* historico_trades), its two mutating operations comprar and vender, the  *)
(* read-only reports, the two strategies, the runner loop rodar_bot and    *)
(* the manual buy and sell commands of the menu.                           *)
(*                                                                         *)
(* Numbers.  Quantities are Python ints.  Prices are the floats the quote  *)
(* source returns; here a price is an integer number of price units, and   *)
(* every quotient the code forms (preco_medio, lucro_pct, a rolling mean)  *)
(* is kept as an exact reduced fraction [num, den].  Binary rounding of    *)
(* individual float operations is therefore outside the model.             *)
(*                                                                         *)
(* Quote source.  obter_preco_ativo and obter_dados_historicos wrap an     *)
(* external provider; what it answers is the variable cotacao, which no    *)
(* operation of the bot changes.                                           *)
(*                                                                         *)
(* The def lines 205, 254 and 300 of the source are indented deeper than   *)
(* their bodies; each is modelled as the method of TradingBot its body     *)
(* defines.  Console output other than the two reports is not modelled.    *)
(***************************************************************************)
EXTENDS Integers, Sequences, FiniteSets, TLC

\* ---------------------------------------------------------------- bounds
MaxCapitalInicial == 4
MaxQuantidade == 2
MaxPreco == 2
MaxTrades == 3
MaxBarras == 4
MaxFechamento == 3
MaxTradesRodar == 2

Tickers == {"AAA", "BBB"}
Quantidades == 1..MaxQuantidade
Precos == 1..MaxPreco

\* An optional value: << >> is Python's None, <<v>> is the value v.
Nenhum == << >>
Algum(v) == <<v>>

\* what obter_preco_ativo can return: None or a price
PrecosOpt == {Nenhum} \cup {Algum(p) : p \in Precos}

\* what obter_dados_historicos can return: None, or a frame whose Close
\* column is any series of at most MaxBarras bars (the empty frame included)
Fechamentos == 1..MaxFechamento
SemDados == [disponivel |-> FALSE, close |-> << >>]
Historicos ==
  {SemDados} \cup
  {[disponivel |-> TRUE, close |-> c] :
     c \in UNION {[1..n -> Fechamentos] : n \in 0..MaxBarras}}

\* the answers of the quote source: the frame it returns to the one
\* obter_dados_historicos call of a strategy, and the price it returns for
\* each ticker
Cotacoes == [dados : Historicos, preco : [Tickers -> PrecosOpt]]

\* the constructor's capital_inicial
CapitaisIniciais == {0, MaxCapitalInicial}

\* the (periodo_curto, periodo_longo) pairs the strategy is called with
Periodos == {<<1, 2>>, <<2, 3>>}

\* the periodo values estrategia_rsi is called with, and the defaults of its
\* limite_sobrecompra and limite_sobrevenda (line 230)
PeriodosRsi == {2, 3}
LimiteSobrecompra == 70
LimiteSobrevenda == 30

\* the periods the runner's strategy calls take by default (lines 205, 230)
\* and the quantity the runner buys on a signal (line 356)
PeriodoCurtoPadrao == 20
PeriodoLongoPadrao == 50
PeriodoRsiPadrao == 14
QuantidadePorSinal == 10

\* the answers of the quote source to the runner: no frame, or one of one
\* bar more than the long period (flat, flat with a last bar above, flat with
\* a last bar below), and for each ticker no price, the lowest or the highest
FrameRodar(base, ultimo) ==
  [disponivel |-> TRUE,
   close |-> [i \in 1..(PeriodoLongoPadrao + 1) |->
                IF i <= PeriodoLongoPadrao THEN base ELSE ultimo]]
CotacoesRodar ==
  [dados : {SemDados, FrameRodar(1, 1), FrameRodar(1, 2), FrameRodar(2, 1)},
   preco : [Tickers -> {Nenhum, Algum(1), Algum(MaxPreco)}]]

\* the capital that pays for one of the runner's buys at the highest price
CapitaisRodar == {QuantidadePorSinal * MaxPreco}

VARIABLES
  capital,            \* self.capital
  capital_inicial,    \* self.capital_inicial
  risco_por_trade,    \* self.risco_por_trade (stored, never read)
  posicoes,           \* self.posicoes: ticker -> position record
  historico_trades,   \* self.historico_trades: list of trade records
  relogio,            \* the value datetime.now() returns
  cotacao,            \* what the quote source answers: cotacao.dados to
                      \* obter_dados_historicos, cotacao.preco[t] to
                      \* obter_preco_ativo(t)
  chamada,            \* the call made last, with its arguments
  retorno,            \* what that call returned
  saida,              \* the report that call printed (Nenhum: no report)
  pc,                 \* where rodar_bot stands ("parado": not running)
  estrategia,         \* rodar_bot's argument estrategia
  indice,             \* the position in tickers of the for loop of line 343
  sinal,              \* rodar_bot's local sinal
  interrompido,       \* a KeyboardInterrupt was raised inside the try
  relatorios          \* the reports rodar_bot printed on its way out

ledger == <<capital, posicoes, historico_trades>>
execucao == <<pc, estrategia, indice, sinal, interrompido, relatorios>>
vars == <<capital, capital_inicial, risco_por_trade, posicoes,
          historico_trades, relogio, cotacao, chamada, retorno, saida,
          pc, estrategia, indice, sinal, interrompido, relatorios>>

\* ------------------------------------------------------- exact fractions
Abs(x) == IF x < 0 THEN -x ELSE x

RECURSIVE MDC(_, _)
MDC(a, b) == IF b = 0 THEN a ELSE MDC(b, a % b)

\* The values of a float that are no number have den = 0: num is 1 for
\* +inf, -1 for -inf and 0 for NaN.  The quote source returns numpy floats,
\* whose division by zero gives these values and raises nothing.
NaN == [num |-> 0, den |-> 0]
IsNaN(x) == x.den = 0 /\ x.num = 0
IsInf(x) == x.den = 0 /\ x.num # 0
Sgn(n) == IF n > 0 THEN 1 ELSE IF n < 0 THEN -1 ELSE 0

\* n / d as a reduced fraction with a positive denominator; n / 0 is +inf,
\* -inf or NaN by the sign of n
Frac(n, d) ==
  IF d = 0 THEN [num |-> Sgn(n), den |-> 0]
  ELSE LET g == MDC(Abs(n), Abs(d))
           s == IF d < 0 THEN -1 ELSE 1
       IN  [num |-> (s * n) \div g, den |-> (s * d) \div g]

FInt(n) == [num |-> n, den |-> 1]
FNeg(a) == [num |-> -a.num, den |-> a.den]
FAdd(a, b) ==
  IF IsNaN(a) \/ IsNaN(b) THEN NaN
  ELSE IF IsInf(a) /\ IsInf(b) THEN (IF a.num = b.num THEN a ELSE NaN)
  ELSE IF IsInf(a) THEN a
  ELSE IF IsInf(b) THEN b
  ELSE Frac(a.num * b.den + b.num * a.den, a.den * b.den)
FSub(a, b) == FAdd(a, FNeg(b))
FMul(a, b) == Frac(a.num * b.num, a.den * b.den)
FDiv(a, b) ==
  IF IsNaN(a) \/ IsNaN(b) THEN NaN
  ELSE IF IsInf(b) THEN (IF IsInf(a) THEN NaN ELSE FInt(0))
  ELSE LET s == IF b.num < 0 THEN -1 ELSE 1
       IN  Frac(s * a.num * b.den, s * a.den * b.num)
\* a < b and a <= b; False when either is NaN
FLt(a, b) ==
  IF IsNaN(a) \/ IsNaN(b) THEN FALSE
  ELSE IF IsInf(a) \/ IsInf(b)
  THEN \/ (IsInf(a) /\ a.num < 0 /\ ~(IsInf(b) /\ b.num < 0))
       \/ (IsInf(b) /\ b.num > 0 /\ ~(IsInf(a) /\ a.num > 0))
  ELSE a.num * b.den < b.num * a.den
FLe(a, b) == ~IsNaN(a) /\ ~IsNaN(b) /\ (a = b \/ FLt(a, b))

\* ------------------------------------------------------------- __init__
\* lines 35-39, for a capital_inicial of the set capitais
InitBot(capitais) ==
  /\ capital_inicial \in capitais
  /\ capital = capital_inicial
  /\ risco_por_trade = Frac(2, 100)
  /\ posicoes = << >>
  /\ historico_trades = << >>
  /\ relogio = 0
  /\ chamada = [op |-> "__init__"]
  /\ retorno = "None"
  /\ saida = Nenhum
  /\ pc = "parado"
  /\ estrategia = ""
  /\ indice = 0
  /\ sinal = "None"
  /\ interrompido = FALSE
  /\ relatorios = << >>

InitLedger == InitBot(CapitaisIniciais)

\* --------------------------------------------------------------- comprar
\* the funds test left out (mutant of CapitalInsuficiente)
CapitalInsuficiente_semTeste(custo_total, cap) == FALSE

\* line 125: if custo_total > self.capital
CapitalInsuficiente(custo_total, cap) == custo_total > cap

\* the average taken as the plain mean of the old average and the new price
\* (mutant of PosicoesAposCompra)
PosicoesAposCompra_mediaSimples(pos, t, q, p, agora) ==
  IF t \in DOMAIN pos
  THEN [pos EXCEPT
          ![t].quantidade = pos[t].quantidade + q,
          ![t].preco_medio = FDiv(FAdd(pos[t].preco_medio, FInt(p)), FInt(2))]
  ELSE [x \in DOMAIN pos \cup {t} |->
          IF x = t
          THEN [quantidade |-> q, preco_medio |-> FInt(p), data_compra |-> agora]
          ELSE pos[x]]

\* lines 131-144: the positions mapping after a buy of q units of t at p
PosicoesAposCompra(pos, t, q, p, agora) ==
  IF t \in DOMAIN pos
  THEN LET qtd_antiga == pos[t].quantidade
           preco_antigo == pos[t].preco_medio
       IN  [pos EXCEPT
              ![t].quantidade = qtd_antiga + q,
              ![t].preco_medio =
                 FDiv(FAdd(FMul(preco_antigo, FInt(qtd_antiga)), FInt(p * q)),
                      FInt(qtd_antiga + q))]
  ELSE [x \in DOMAIN pos \cup {t} |->
          IF x = t
          THEN [quantidade |-> q, preco_medio |-> FInt(p), data_compra |-> agora]
          ELSE pos[x]]

\* the notional recorded without the quantity (mutant of RegistroCompra)
RegistroCompra_totalUnitario(t, q, p, custo_total, agora) ==
  [tipo |-> "COMPRA", ticker |-> t, quantidade |-> q, preco |-> p,
   data |-> agora, total |-> p]

\* lines 146-153: the record a buy appends
RegistroCompra(t, q, p, custo_total, agora) ==
  [tipo |-> "COMPRA", ticker |-> t, quantidade |-> q, preco |-> p,
   data |-> agora, total |-> custo_total]

\* the record put in front of the list (mutant of HistoricoApos)
HistoricoApos_naFrente(hist, registro) == <<registro>> \o hist

\* lines 146 and 190: self.historico_trades.append(registro)
HistoricoApos(hist, registro) == Append(hist, registro)

comprar(t, q, p) ==
  LET custo_total == q * p IN
  /\ chamada' = [op |-> "comprar", ticker |-> t, quantidade |-> q, preco |-> p]
  /\ IF CapitalInsuficiente(custo_total, capital)
     THEN /\ retorno' = "False"
          /\ UNCHANGED <<capital, posicoes, historico_trades, relogio>>
     ELSE /\ capital' = capital - custo_total
          /\ posicoes' = PosicoesAposCompra(posicoes, t, q, p, relogio)
          /\ historico_trades' =
               HistoricoApos(historico_trades,
                             RegistroCompra(t, q, p, custo_total, relogio))
          /\ relogio' = relogio + 1
          /\ retorno' = "True"
  /\ saida' = Nenhum
  /\ UNCHANGED <<capital_inicial, risco_por_trade, cotacao>>

Comprar ==
  /\ Len(historico_trades) < MaxTrades
  /\ \E t \in Tickers, q \in Quantidades, p \in Precos : comprar(t, q, p)
  /\ UNCHANGED execucao

\* ---------------------------------------------------------------- vender
\* the holding tested for emptiness only, not against the quantity asked
\* (mutant of QuantidadeInsuficiente)
QuantidadeInsuficiente_soVazio(qtd_posicao, q) == qtd_posicao <= 0

\* line 174: if self.posicoes[ticker]['quantidade'] < quantidade
QuantidadeInsuficiente(qtd_posicao, q) == qtd_posicao < q

\* the emptied position never deleted (mutant of PosicaoZerada)
PosicaoZerada_nunca(qtd_restante) == FALSE

\* line 187: if self.posicoes[ticker]['quantidade'] == 0
PosicaoZerada(qtd_restante) == qtd_restante = 0

\* the sale's proceeds taken out of the cost basis, so that the average of
\* what is left moves with the sale price (mutant of PosicoesAposVenda)
PosicoesAposVenda_baixaPeloPrecoDeVenda(pos, t, q, p) ==
  LET restante == pos[t].quantidade - q IN
  IF PosicaoZerada(restante)
  THEN [x \in DOMAIN pos \ {t} |-> pos[x]]
  ELSE [pos EXCEPT
          ![t].quantidade = restante,
          ![t].preco_medio =
             FDiv(FSub(FMul(pos[t].preco_medio, FInt(pos[t].quantidade)),
                       FInt(p * q)),
                  FInt(restante))]

\* the whole position closed by any sale (mutant of PosicoesAposVenda)
PosicoesAposVenda_liquidaTudo(pos, t, q, p) ==
  [x \in DOMAIN pos \ {t} |-> pos[x]]

\* lines 185-188: the positions mapping after a sale of q units of t at p
PosicoesAposVenda(pos, t, q, p) ==
  LET restante == pos[t].quantidade - q IN
  IF PosicaoZerada(restante)
  THEN [x \in DOMAIN pos \ {t} |-> pos[x]]
  ELSE [pos EXCEPT ![t].quantidade = restante]

\* the profit recorded without the cost of what was sold (mutant of
\* RegistroVenda)
RegistroVenda_lucroBruto(t, q, p, valor_venda, preco_medio, agora) ==
  [tipo |-> "VENDA", ticker |-> t, quantidade |-> q, preco |-> p,
   data |-> agora, total |-> valor_venda,
   lucro |-> FInt(valor_venda),
   lucro_pct |-> FMul(FSub(FDiv(FInt(p), preco_medio), FInt(1)), FInt(100))]

\* lines 181-183 and 190-199: the record a sale appends
RegistroVenda(t, q, p, valor_venda, preco_medio, agora) ==
  [tipo |-> "VENDA", ticker |-> t, quantidade |-> q, preco |-> p,
   data |-> agora, total |-> valor_venda,
   lucro |-> FMul(FSub(FInt(p), preco_medio), FInt(q)),
   lucro_pct |-> FMul(FSub(FDiv(FInt(p), preco_medio), FInt(1)), FInt(100))]

\* the proceeds debited instead of credited (mutant of CapitalAposVenda)
CapitalAposVenda_debita(cap, valor_venda) == cap - valor_venda

\* line 179: self.capital += valor_venda
CapitalAposVenda(cap, valor_venda) == cap + valor_venda

vender(t, q, p) ==
  /\ chamada' = [op |-> "vender", ticker |-> t, quantidade |-> q, preco |-> p]
  /\ IF t \notin DOMAIN posicoes
     THEN /\ retorno' = "False"
          /\ UNCHANGED <<capital, posicoes, historico_trades, relogio>>
     ELSE IF QuantidadeInsuficiente(posicoes[t].quantidade, q)
     THEN /\ retorno' = "False"
          /\ UNCHANGED <<capital, posicoes, historico_trades, relogio>>
     ELSE LET valor_venda == q * p
              preco_medio == posicoes[t].preco_medio
          IN  /\ capital' = CapitalAposVenda(capital, valor_venda)
              /\ posicoes' = PosicoesAposVenda(posicoes, t, q, p)
              /\ historico_trades' =
                   HistoricoApos(historico_trades,
                                 RegistroVenda(t, q, p, valor_venda, preco_medio,
                                               relogio))
              /\ relogio' = relogio + 1
              /\ retorno' = "True"
  /\ saida' = Nenhum
  /\ UNCHANGED <<capital_inicial, risco_por_trade, cotacao>>

Vender ==
  /\ Len(historico_trades) < MaxTrades
  /\ \E t \in Tickers, q \in Quantidades, p \in Precos : vender(t, q, p)
  /\ UNCHANGED execucao

\* ---------------------------------------------------- monitorar_posicoes
RECURSIVE SomaF(_, _)
\* the sum of f[x] over the set S of fractions' keys
SomaF(f, S) ==
  IF S = {} THEN FInt(0)
  ELSE LET x == CHOOSE y \in S : TRUE IN FAdd(f[x], SomaF(f, S \ {x}))

\* lines 274-279: the figures printed for one position at price preco_atual
LinhaPosicao(info, preco_atual) ==
  LET valor_investido == FMul(FInt(info.quantidade), info.preco_medio)
      valor_atual == FInt(info.quantidade * preco_atual)
      lucro_nao_realizado == FSub(valor_atual, valor_investido)
  IN  [quantidade |-> info.quantidade,
       preco_medio |-> info.preco_medio,
       preco_atual |-> preco_atual,
       valor_investido |-> valor_investido,
       valor_atual |-> valor_atual,
       lucro_nao_realizado |-> lucro_nao_realizado,
       lucro_pct |-> FMul(FDiv(lucro_nao_realizado, valor_investido), FInt(100))]

\* a position without a price counted at its average cost instead of being
\* skipped (mutant of RelatorioPosicoes)
RelatorioPosicoes_semPular(cap, pos, precos) ==
  LET cotados == {t \in DOMAIN pos : precos[t] # Nenhum}
      linhas == [t \in cotados |-> LinhaPosicao(pos[t], precos[t][1])]
      valor_total_posicoes ==
        SomaF([t \in DOMAIN pos |->
                 IF t \in cotados THEN linhas[t].valor_atual
                 ELSE FMul(FInt(pos[t].quantidade), pos[t].preco_medio)],
              DOMAIN pos)
      lucro_total_nao_realizado ==
        SomaF([t \in cotados |-> linhas[t].lucro_nao_realizado], cotados)
  IN  [linhas |-> linhas,
       capital_disponivel |-> cap,
       valor_total_posicoes |-> valor_total_posicoes,
       lucro_total_nao_realizado |-> lucro_total_nao_realizado,
       patrimonio_total |-> FAdd(FInt(cap), valor_total_posicoes)]

\* lines 266-297: the report, precos[t] being what obter_preco_ativo(t)
\* returns
RelatorioPosicoes(cap, pos, precos) ==
  LET cotados == {t \in DOMAIN pos : precos[t] # Nenhum}
      linhas == [t \in cotados |-> LinhaPosicao(pos[t], precos[t][1])]
      valor_total_posicoes ==
        SomaF([t \in cotados |-> linhas[t].valor_atual], cotados)
      lucro_total_nao_realizado ==
        SomaF([t \in cotados |-> linhas[t].lucro_nao_realizado], cotados)
  IN  [linhas |-> linhas,
       capital_disponivel |-> cap,
       valor_total_posicoes |-> valor_total_posicoes,
       lucro_total_nao_realizado |-> lucro_total_nao_realizado,
       patrimonio_total |-> FAdd(FInt(cap), valor_total_posicoes)]

monitorar_posicoes ==
  /\ chamada' = [op |-> "monitorar_posicoes"]
  /\ saida' = IF DOMAIN posicoes = {}
              THEN Algum([mensagem |-> "Nenhuma posicao aberta no momento."])
              ELSE Algum(RelatorioPosicoes(capital, posicoes, cotacao.preco))
  /\ retorno' = "None"
  /\ UNCHANGED <<capital, capital_inicial, risco_por_trade, posicoes,
                 historico_trades, relogio, cotacao>>

MonitorarPosicoes == monitorar_posicoes /\ UNCHANGED execucao

\* ------------------------------------------------------ exibir_historico
exibir_historico ==
  /\ chamada' = [op |-> "exibir_historico"]
  /\ saida' = IF historico_trades = << >>
              THEN Algum([mensagem |-> "Nenhuma operacao realizada ainda."])
              ELSE Algum([operacoes |-> historico_trades])
  /\ retorno' = "None"
  /\ UNCHANGED <<capital, capital_inicial, risco_por_trade, posicoes,
                 historico_trades, relogio, cotacao>>

ExibirHistorico == exibir_historico /\ UNCHANGED execucao

\* -------------------------------------------------- calcular_media_movel
\* A rolling mean is a fraction, or NaN where the window is not yet full.
RECURSIVE SomaJanela(_, _, _)
\* close[de] + ... + close[ate]
SomaJanela(close, de, ate) ==
  IF de > ate THEN 0 ELSE close[ate] + SomaJanela(close, de, ate - 1)

\* line 91: dados['Close'].rolling(window=periodo).mean()
calcular_media_movel(close, periodo) ==
  [i \in 1..Len(close) |->
     IF i < periodo THEN NaN
     ELSE Frac(SomaJanela(close, i - periodo + 1, i), periodo)]

\* Python's float comparisons: every comparison with NaN is False
Maior(a, b) == ~IsNaN(a) /\ ~IsNaN(b) /\ FLt(b, a)
Menor(a, b) == ~IsNaN(a) /\ ~IsNaN(b) /\ FLt(a, b)
MenorIgual(a, b) == ~IsNaN(a) /\ ~IsNaN(b) /\ FLe(a, b)
MaiorIgual(a, b) == ~IsNaN(a) /\ ~IsNaN(b) /\ FLe(b, a)

\* ------------------------------------------ estrategia_cruzamento_medias
\* line 212: if dados is None or len(dados) < periodo_longo
DadosInsuficientes(dados, periodo_longo) ==
  ~dados.disponivel \/ Len(dados.close) < periodo_longo

\* the previous bar compared strictly, so that a crossing that starts from
\* equal means is missed (mutant of SinalCruzamento)
SinalCruzamento_estrito(media_curta, media_longa) ==
  LET n == Len(media_curta) IN
  IF Maior(media_curta[n], media_longa[n])
     /\ Menor(media_curta[n - 1], media_longa[n - 1])
  THEN "COMPRAR"
  ELSE IF Menor(media_curta[n], media_longa[n])
          /\ Maior(media_curta[n - 1], media_longa[n - 1])
  THEN "VENDER"
  ELSE "MANTER"

\* lines 223-228: the crossing test on the last two values of each mean
SinalCruzamento(media_curta, media_longa) ==
  LET n == Len(media_curta) IN
  IF Maior(media_curta[n], media_longa[n])
     /\ MenorIgual(media_curta[n - 1], media_longa[n - 1])
  THEN "COMPRAR"
  ELSE IF Menor(media_curta[n], media_longa[n])
          /\ MaiorIgual(media_curta[n - 1], media_longa[n - 1])
  THEN "VENDER"
  ELSE "MANTER"

\* lines 211-228, given the answers dados and preco_atual of the quote source
\* (the quote source decides what it makes of the period argument of line 211)
estrategia_cruzamento_medias(dados, preco_atual, periodo_curto, periodo_longo) ==
  IF DadosInsuficientes(dados, periodo_longo) THEN "None"
  ELSE IF preco_atual = Nenhum THEN "None"
  ELSE SinalCruzamento(calcular_media_movel(dados.close, periodo_curto),
                       calcular_media_movel(dados.close, periodo_longo))

EstrategiaCruzamentoMedias ==
  /\ \E t \in Tickers, pp \in Periodos :
       /\ chamada' = [op |-> "estrategia_cruzamento_medias", ticker |-> t,
                      periodo_curto |-> pp[1], periodo_longo |-> pp[2]]
       /\ retorno' = estrategia_cruzamento_medias(cotacao.dados, cotacao.preco[t],
                                                  pp[1], pp[2])
  /\ saida' = Nenhum
  /\ UNCHANGED <<capital, capital_inicial, risco_por_trade, posicoes,
                 historico_trades, relogio, cotacao>>
  /\ UNCHANGED execucao

\* ---------------------------------------------------------- calcular_rsi
\* line 104: dados['Close'].diff(); NaN at the first bar
Delta(close, i) == IF i = 1 THEN NaN ELSE FInt(close[i] - close[i - 1])

\* line 105: delta.where(delta > 0, 0); a NaN delta fails the test and
\* becomes 0
GanhoBruto(close, i) ==
  LET d == Delta(close, i) IN IF Maior(d, FInt(0)) THEN d ELSE FInt(0)

\* line 106: -delta.where(delta < 0, 0)
PerdaBruta(close, i) ==
  LET d == Delta(close, i) IN FNeg(IF Menor(d, FInt(0)) THEN d ELSE FInt(0))

RECURSIVE MediaJanela(_, _, _, _)
\* acc + coluna[de] + ... + coluna[ate], for the mean of a window
MediaJanela(coluna, de, ate, acc) ==
  IF de > ate THEN acc
  ELSE MediaJanela(coluna, de + 1, ate, FAdd(acc, coluna[de]))

\* lines 105-106: .rolling(window=periodo).mean() of a column without NaN
MediaMovelDe(coluna, periodo) ==
  [i \in 1..Len(coluna) |->
     IF i < periodo THEN NaN
     ELSE FDiv(MediaJanela(coluna, i - periodo + 1, i, FInt(0)),
               FInt(periodo))]

\* the relative strength left at 0 when there is no loss, so that the index
\* of an all-gains window is 0 (mutant of IndiceRsi)
IndiceRsi_semPerdaZero(ganho, perda) ==
  LET rs == IF perda = FInt(0) THEN FInt(0) ELSE FDiv(ganho, perda)
  IN  FSub(FInt(100), FDiv(FInt(100), FAdd(FInt(1), rs)))

\* lines 107-108: rs = ganho / perda; rsi = 100 - (100 / (1 + rs))
IndiceRsi(ganho, perda) ==
  LET rs == FDiv(ganho, perda)
  IN  FSub(FInt(100), FDiv(FInt(100), FAdd(FInt(1), rs)))

\* lines 104-109
calcular_rsi(close, periodo) ==
  LET ganho == MediaMovelDe([i \in 1..Len(close) |-> GanhoBruto(close, i)],
                            periodo)
      perda == MediaMovelDe([i \in 1..Len(close) |-> PerdaBruta(close, i)],
                            periodo)
  IN  [i \in 1..Len(close) |-> IndiceRsi(ganho[i], perda[i])]

\* -------------------------------------------------------- estrategia_rsi
\* lines 246-251: the thresholds applied to the latest index
SinalRsi(rsi_atual, limite_sobrecompra, limite_sobrevenda) ==
  IF Menor(rsi_atual, FInt(limite_sobrevenda)) THEN "COMPRAR"
  ELSE IF Maior(rsi_atual, FInt(limite_sobrecompra)) THEN "VENDER"
  ELSE "MANTER"

\* lines 236-251, given the answer dados of the quote source; line 237 is
\* the test of DadosInsuficientes on periodo
estrategia_rsi(dados, periodo, limite_sobrecompra, limite_sobrevenda) ==
  IF DadosInsuficientes(dados, periodo) THEN "None"
  ELSE LET rsi == calcular_rsi(dados.close, periodo) IN
       IF Len(dados.close) = 0 THEN "None"
       ELSE SinalRsi(rsi[Len(dados.close)], limite_sobrecompra, limite_sobrevenda)

EstrategiaRsi ==
  /\ \E t \in Tickers, periodo \in PeriodosRsi :
       /\ chamada' = [op |-> "estrategia_rsi", ticker |-> t, periodo |-> periodo]
       /\ retorno' = estrategia_rsi(cotacao.dados, periodo,
                                    LimiteSobrecompra, LimiteSobrevenda)
  /\ saida' = Nenhum
  /\ UNCHANGED <<capital, capital_inicial, risco_por_trade, posicoes,
                 historico_trades, relogio, cotacao>>
  /\ UNCHANGED execucao

\* ------------------------------------------------------------- rodar_bot
\* the tickers argument, and the values of the estrategia argument: the two
\* strategies and a name that is neither
TickersRodar == <<"AAA", "BBB">>
Estrategias == {"cruzamento_medias", "rsi", "outra"}

\* lines 354 and 361: if preco
PrecoValido(preco) == preco # Nenhum /\ preco[1] # 0

\* a hold treated as a buy (mutant of AcaoDoSinal)
AcaoDoSinal_compraNoManter(s, t, pos) ==
  IF s = "COMPRAR" \/ s = "MANTER" THEN "comprar"
  ELSE IF s = "VENDER" /\ t \in DOMAIN pos THEN "vender"
  ELSE "nada"

\* lines 352 and 358: what the runner does with the signal of ticker t
AcaoDoSinal(s, t, pos) ==
  IF s = "COMPRAR" THEN "comprar"
  ELSE IF s = "VENDER" /\ t \in DOMAIN pos THEN "vender"
  ELSE "nada"

\* one share sold, whatever is held (mutant of QuantidadeAVender)
QuantidadeAVender_umaAcao(pos, t) == 1

\* line 360: quantidade = self.posicoes[ticker]['quantidade']
QuantidadeAVender(pos, t) == pos[t].quantidade

\* the history left out of the handler (mutant of ProximoPasso)
ProximoPasso_semHistorico(passo) ==
  IF passo = "interrupcao" THEN "monitorar" ELSE "retornou"

\* lines 366-369: where control goes after the interrupt is caught, after
\* monitorar_posicoes and after exibir_historico
ProximoPasso(passo) ==
  IF passo = "interrupcao" THEN "monitorar"
  ELSE IF passo = "monitorar" THEN "historico"
  ELSE "retornou"

\* lines 335-342: the call, up to the first pass of the loop
RodarBot ==
  /\ pc = "parado"
  /\ estrategia' \in Estrategias
  /\ pc' = "sinal"
  /\ indice' = 1
  /\ sinal' = "None"
  /\ interrompido' = FALSE
  /\ relatorios' = << >>
  /\ UNCHANGED <<capital, capital_inicial, risco_por_trade, posicoes,
                 historico_trades, relogio, cotacao, chamada, retorno, saida>>

\* lines 344-350: the strategy call for the ticker of the loop; a name that
\* is no strategy ends rodar_bot
AvaliaSinal ==
  /\ pc = "sinal"
  /\ Len(historico_trades) < MaxTradesRodar
  /\ LET t == TickersRodar[indice] IN
     IF estrategia = "cruzamento_medias"
     THEN /\ chamada' = [op |-> "estrategia_cruzamento_medias", ticker |-> t,
                         periodo_curto |-> PeriodoCurtoPadrao,
                         periodo_longo |-> PeriodoLongoPadrao]
          /\ retorno' = estrategia_cruzamento_medias(
                            cotacao.dados, cotacao.preco[t],
                            PeriodoCurtoPadrao, PeriodoLongoPadrao)
          /\ sinal' = retorno'
          /\ saida' = Nenhum
          /\ pc' = "executa"
     ELSE IF estrategia = "rsi"
     THEN /\ chamada' = [op |-> "estrategia_rsi", ticker |-> t,
                         periodo |-> PeriodoRsiPadrao]
          /\ retorno' = estrategia_rsi(cotacao.dados, PeriodoRsiPadrao,
                                       LimiteSobrecompra, LimiteSobrevenda)
          /\ sinal' = retorno'
          /\ saida' = Nenhum
          /\ pc' = "executa"
     ELSE /\ pc' = "retornou"
          /\ UNCHANGED <<chamada, retorno, saida, sinal>>
  /\ UNCHANGED <<capital, capital_inicial, risco_por_trade, posicoes,
                 historico_trades, relogio, cotacao, estrategia, indice,
                 interrompido, relatorios>>

\* lines 352-362: the signal acted on, then the next ticker of the pass or,
\* after the last one, the sleep of line 364
ExecutaSinal ==
  /\ pc = "executa"
  /\ LET t == TickersRodar[indice]
         acao == AcaoDoSinal(sinal, t, posicoes)
         preco == cotacao.preco[t]
     IN  IF acao = "nada"
         THEN UNCHANGED <<capital, capital_inicial, risco_por_trade, posicoes,
                          historico_trades, relogio, cotacao, chamada, retorno,
                          saida>>
         ELSE IF ~PrecoValido(preco)
         THEN /\ chamada' = [op |-> "obter_preco_ativo", ticker |-> t]
              /\ retorno' = "None"
              /\ saida' = Nenhum
              /\ UNCHANGED <<capital, capital_inicial, risco_por_trade,
                             posicoes, historico_trades, relogio, cotacao>>
         ELSE IF acao = "comprar"
         THEN comprar(t, QuantidadePorSinal, preco[1])
         ELSE vender(t, QuantidadeAVender(posicoes, t), preco[1])
  /\ IF indice < Len(TickersRodar)
     THEN pc' = "sinal" /\ indice' = indice + 1
     ELSE pc' = "dorme" /\ indice' = indice
  /\ UNCHANGED <<estrategia, sinal, interrompido, relatorios>>

\* lines 364 and 342-343: the sleep over, the next pass starts
Dorme ==
  /\ pc = "dorme"
  /\ pc' = "sinal"
  /\ indice' = 1
  /\ UNCHANGED <<capital, capital_inicial, risco_por_trade, posicoes,
                 historico_trades, relogio, cotacao, chamada, retorno, saida,
                 estrategia, sinal, interrompido, relatorios>>

\* line 366: a KeyboardInterrupt raised between two steps of the loop or
\* during the sleep
Interrompe ==
  /\ pc \in {"sinal", "executa", "dorme"}
  /\ pc' = ProximoPasso("interrupcao")
  /\ interrompido' = TRUE
  /\ UNCHANGED <<capital, capital_inicial, risco_por_trade, posicoes,
                 historico_trades, relogio, cotacao, chamada, retorno, saida,
                 estrategia, indice, sinal, relatorios>>

\* line 368: self.monitorar_posicoes()
RelatorioFinal ==
  /\ pc = "monitorar"
  /\ monitorar_posicoes
  /\ relatorios' = Append(relatorios, "monitorar_posicoes")
  /\ pc' = ProximoPasso("monitorar")
  /\ UNCHANGED <<estrategia, indice, sinal, interrompido>>

\* line 369: self.exibir_historico(), and the return that follows
HistoricoFinal ==
  /\ pc = "historico"
  /\ exibir_historico
  /\ relatorios' = Append(relatorios, "exibir_historico")
  /\ pc' = ProximoPasso("historico")
  /\ UNCHANGED <<estrategia, indice, sinal, interrompido>>

\* the quote source changing its answers while the runner is in its loop
Mercado ==
  /\ pc \in {"sinal", "executa", "dorme"}
  /\ cotacao' \in CotacoesRodar \ {cotacao}
  /\ UNCHANGED <<capital, capital_inicial, risco_por_trade, posicoes,
                 historico_trades, relogio, chamada, retorno, saida>>
  /\ UNCHANGED execucao

\* ------------------------------------------------------------------ menu
\* what int(input()) gives for the quantity typed: any integer
QuantidadesDigitadas == (-MaxQuantidade)..MaxQuantidade

\* lines 403-411, option 2: ticker and quantity typed, the price fetched,
\* the buy made if there is a price and the user confirms
MenuComprar ==
  /\ Len(historico_trades) < MaxTrades
  /\ \E t \in Tickers, quantidade \in QuantidadesDigitadas,
        confirma \in BOOLEAN :
       LET preco == cotacao.preco[t] IN
       IF PrecoValido(preco) /\ confirma
       THEN comprar(t, quantidade, preco[1])
       ELSE /\ chamada' = [op |-> "obter_preco_ativo", ticker |-> t]
            /\ retorno' = IF preco = Nenhum THEN "None" ELSE "float"
            /\ saida' = Nenhum
            /\ UNCHANGED <<capital, capital_inicial, risco_por_trade,
                           posicoes, historico_trades, relogio, cotacao>>
  /\ UNCHANGED execucao

\* lines 413-430, option 3: with a position open, ticker typed; if it is
\* held, quantity typed, the price fetched, the sale made if there is a price
\* and the user confirms
MenuVender ==
  /\ Len(historico_trades) < MaxTrades
  /\ IF DOMAIN posicoes = {}
     THEN UNCHANGED <<capital, capital_inicial, risco_por_trade, posicoes,
                      historico_trades, relogio, cotacao, chamada, retorno,
                      saida>>
     ELSE \E t \in Tickers, quantidade \in QuantidadesDigitadas,
             confirma \in BOOLEAN :
            LET preco == cotacao.preco[t] IN
            IF t \notin DOMAIN posicoes
            THEN UNCHANGED <<capital, capital_inicial, risco_por_trade,
                             posicoes, historico_trades, relogio, cotacao,
                             chamada, retorno, saida>>
            ELSE IF PrecoValido(preco) /\ confirma
            THEN vender(t, quantidade, preco[1])
            ELSE /\ chamada' = [op |-> "obter_preco_ativo", ticker |-> t]
                 /\ retorno' = IF preco = Nenhum THEN "None" ELSE "float"
                 /\ saida' = Nenhum
                 /\ UNCHANGED <<capital, capital_inicial, risco_por_trade,
                                posicoes, historico_trades, relogio, cotacao>>
  /\ UNCHANGED execucao

\* ------------------------------------------------------- specifications
\* The ledger: trades, reports and strategy calls in any order, while the
\* quote source keeps giving one answer: a series with an upward crossing,
\* a price for one ticker and none for the other.
CotacaoLedger ==
  [dados |-> [disponivel |-> TRUE, close |-> <<2, 1, 2>>],
   preco |-> [t \in Tickers |-> IF t = "AAA" THEN Algum(2) ELSE Nenhum]]

Init == InitLedger /\ cotacao = CotacaoLedger

Next ==
  \/ Comprar
  \/ Vender
  \/ MonitorarPosicoes
  \/ ExibirHistorico
  \/ EstrategiaCruzamentoMedias

Spec == Init /\ [][Next]_vars

\* The signal engine: a new ledger, and strategy calls on every answer the
\* quote source can give.
\* A strategy only tests its price for None (line 219), so one price stands
\* for every price the quote source can return.
CotacoesSinal ==
  {c \in Cotacoes : \A t \in Tickers : c.preco[t] \in {Nenhum, Algum(1)}}

InitSinal ==
  /\ InitLedger
  /\ capital_inicial = MaxCapitalInicial
  /\ cotacao \in CotacoesSinal

NextSinal == EstrategiaCruzamentoMedias \/ EstrategiaRsi

SpecSinal == InitSinal /\ [][NextSinal]_vars

\* The valuation report: trades at any price and reports in any order, on
\* every mapping of the tickers to a current price (the highest one) or to
\* none.
CotacoesRelatorio ==
  {[dados |-> SemDados, preco |-> m] :
     m \in [Tickers -> {Nenhum, Algum(MaxPreco)}]}

InitRelatorio == InitLedger /\ cotacao \in CotacoesRelatorio

NextRelatorio == Comprar \/ Vender \/ MonitorarPosicoes

SpecRelatorio == InitRelatorio /\ [][NextRelatorio]_vars

\* The menu: manual buys and sells of any integer quantity, at the price
\* the quote source gives, which is one of the positive prices or none.
CotacoesMenu ==
  {[dados |-> SemDados, preco |-> m] : m \in [Tickers -> PrecosOpt]}

InitMenu == InitLedger /\ cotacao \in CotacoesMenu

NextMenu == MenuComprar \/ MenuVender

SpecMenu == InitMenu /\ [][NextMenu]_vars

\* The runner: rodar_bot called on a new ledger, the quote source changing
\* its answers as the loop goes, an interrupt at any step.
InitRodar == InitBot(CapitaisRodar) /\ cotacao \in CotacoesRodar

NextRodar ==
  \/ RodarBot
  \/ AvaliaSinal
  \/ ExecutaSinal
  \/ Dorme
  \/ Mercado
  \/ Interrompe
  \/ RelatorioFinal
  \/ HistoricoFinal

SpecRodar == InitRodar /\ [][NextRodar]_vars

\* ================================================================ claims
\* the call a step makes, read from the step's second state
EhCompra == chamada'.op = "comprar"
EhVenda == chamada'.op = "vender"

\* the quantity of t held in pos, 0 when pos has no entry for t
Detido(pos, t) == IF t \in DOMAIN pos THEN pos[t].quantidade ELSE 0

\* the entries of the tickers other than t are the same in pos and pos2
OutrosIguais(pos, pos2, t) ==
  \A x \in Tickers \ {t} :
    /\ (x \in DOMAIN pos) = (x \in DOMAIN pos2)
    /\ x \in DOMAIN pos => pos2[x] = pos[x]

\* C1: a declined call mutates nothing.  A comprar whose quantity*price
\* exceeds the cash, and a vender of a ticker that has no position or holds
\* less than the quantity asked, return False and leave cash, positions and
\* history as they were.
C1_RecusaNaoAltera ==
  [][ /\ (EhCompra /\ chamada'.quantidade * chamada'.preco > capital)
           => (retorno' = "False" /\ UNCHANGED ledger)
      /\ (EhVenda /\ Detido(posicoes, chamada'.ticker) < chamada'.quantidade)
           => (retorno' = "False" /\ UNCHANGED ledger) ]_vars

\* a sale declined although the ticker is held (less than asked), after trades
C1_Witness ==
  /\ chamada.op = "vender"
  /\ retorno = "False"
  /\ chamada.ticker \in DOMAIN posicoes
  /\ posicoes[chamada.ticker].quantidade < chamada.quantidade
  /\ historico_trades # << >>

\* C2: with a non-negative initial capital, cash >= 0 in every state that
\* comprar and vender calls with quantity > 0 and price > 0 can reach.
C2_CapitalNaoNegativo == capital >= 0

\* a buy that spent the whole of a positive cash balance
C2_Witness ==
  /\ chamada.op = "comprar"
  /\ retorno = "True"
  /\ capital = 0
  /\ capital_inicial > 0

\* C3: a comprar(t, q, p) with q*p <= cash (the boundary q*p = cash
\* included) returns True, debits cash by exactly q*p, raises the held
\* quantity of t by exactly q (from 0 when t had no position), makes the
\* average cost p for a new position and the weighted blend
\* (old_avg*old_qty + p*q) / (old_qty + q) otherwise, and leaves the
\* positions of the other tickers alone.
C3_CompraAceita ==
  [][ (EhCompra /\ chamada'.quantidade * chamada'.preco <= capital) =>
        LET t == chamada'.ticker
            q == chamada'.quantidade
            p == chamada'.preco
        IN  /\ retorno' = "True"
            /\ capital' = capital - q * p
            /\ t \in DOMAIN posicoes'
            /\ posicoes'[t].quantidade = Detido(posicoes, t) + q
            /\ LET novo == posicoes'[t].preco_medio IN
               IF t \notin DOMAIN posicoes
               THEN novo.num = p * novo.den
               ELSE LET antigo == posicoes[t].preco_medio
                        qtd == posicoes[t].quantidade
                    IN  \* novo = (antigo*qtd + p*q) / (qtd + q), cross-multiplied
                        novo.num * antigo.den * (qtd + q)
                          = (antigo.num * qtd + p * q * antigo.den) * novo.den
            /\ OutrosIguais(posicoes, posicoes', t) ]_vars

\* a buy at the boundary q*p = cash into an open position, at a price other
\* than its average, while another ticker is held
C3_Witness ==
  /\ chamada.op = "comprar"
  /\ retorno = "True"
  /\ capital = 0
  /\ chamada.ticker \in DOMAIN posicoes
  /\ posicoes[chamada.ticker].quantidade > chamada.quantidade
  /\ posicoes[chamada.ticker].preco_medio # FInt(chamada.preco)
  /\ DOMAIN posicoes = Tickers

\* C4: a vender(t, q, p) with q <= held quantity of t returns True, credits
\* cash by exactly q*p, lowers the held quantity of t by exactly q, removes
\* the entry of t exactly when the resulting quantity is 0, and leaves the
\* positions of the other tickers alone.
C4_VendaAceita ==
  [][ (EhVenda /\ chamada'.ticker \in DOMAIN posicoes
               /\ chamada'.quantidade <= posicoes[chamada'.ticker].quantidade) =>
        LET t == chamada'.ticker
            q == chamada'.quantidade
            p == chamada'.preco
            restante == posicoes[t].quantidade - q
        IN  /\ retorno' = "True"
            /\ capital' = capital + q * p
            /\ Detido(posicoes', t) = restante
            /\ (t \notin DOMAIN posicoes') = (restante = 0)
            /\ OutrosIguais(posicoes, posicoes', t) ]_vars

\* a sale of the whole holding of one ticker while the other stays held
C4_Witness ==
  /\ chamada.op = "vender"
  /\ retorno = "True"
  /\ chamada.ticker \notin DOMAIN posicoes
  /\ DOMAIN posicoes # {}

RECURSIVE SomaTotais(_, _)
\* the sum of the 'total' of the records of kind tipo in hist
SomaTotais(hist, tipo) ==
  IF hist = << >> THEN 0
  ELSE (IF Head(hist).tipo = tipo THEN Head(hist).total ELSE 0)
       + SomaTotais(Tail(hist), tipo)

\* C5: cash conservation.  In every reachable state cash equals the initial
\* capital minus the totals of the COMPRA records plus the totals of the
\* VENDA records of the history.
C5_ConservacaoDoCapital ==
  capital = capital_inicial - SomaTotais(historico_trades, "COMPRA")
                            + SomaTotais(historico_trades, "VENDA")

\* a history holding a buy of several units and a sale at another price
C5_Witness ==
  \E i, j \in 1..Len(historico_trades) :
    /\ historico_trades[i].tipo = "COMPRA"
    /\ historico_trades[i].quantidade > 1
    /\ historico_trades[j].tipo = "VENDA"
    /\ historico_trades[j].preco # historico_trades[i].preco

\* C6: every entry of the positions mapping has quantity > 0: a position
\* that reaches 0 is deleted, and none is ever negative.
C6_PosicoesPositivas ==
  \A t \in DOMAIN posicoes : posicoes[t].quantidade > 0

\* a sale in two parts has just brought a holding to 0
C6_Witness ==
  /\ chamada.op = "vender"
  /\ retorno = "True"
  /\ chamada.ticker \notin DOMAIN posicoes
  /\ Len(historico_trades) >= 3
  /\ historico_trades[Len(historico_trades) - 1].tipo = "VENDA"
  /\ historico_trades[Len(historico_trades) - 1].ticker = chamada.ticker

\* C7: the history is append-only.  A successful comprar or vender appends
\* exactly one record at the end, and every other call (a declined one, a
\* report, a strategy) leaves the history as it is; so the history of a
\* state is a prefix of the history of every later state.
C7_HistoricoSoCresce ==
  [][ LET h == historico_trades
          h2 == historico_trades'
          executou == (EhCompra \/ EhVenda) /\ retorno' = "True"
      IN  /\ Len(h2) >= Len(h)
          /\ SubSeq(h2, 1, Len(h)) = h
          /\ executou => Len(h2) = Len(h) + 1
          /\ ~executou => h2 = h ]_vars

\* a strategy call on a ledger whose history holds a buy and a sale
C7_Witness ==
  /\ chamada.op = "estrategia_cruzamento_medias"
  /\ Len(historico_trades) >= 2
  /\ historico_trades[1].tipo = "COMPRA"
  /\ historico_trades[2].tipo = "VENDA"

\* C8: a sale never changes the average cost.  After a successful
\* vender(t, q, p) with q < held quantity the position of t is still open
\* and its average cost is what it was, whatever the price p.
C8_VendaMantemPrecoMedio ==
  [][ (EhVenda /\ chamada'.ticker \in DOMAIN posicoes
               /\ chamada'.quantidade < posicoes[chamada'.ticker].quantidade) =>
        LET t == chamada'.ticker IN
        /\ retorno' = "True"
        /\ t \in DOMAIN posicoes'
        /\ posicoes'[t].preco_medio = posicoes[t].preco_medio ]_vars

\* a partial sale at a price other than the average cost of the position
C8_Witness ==
  /\ chamada.op = "vender"
  /\ retorno = "True"
  /\ chamada.ticker \in DOMAIN posicoes
  /\ posicoes[chamada.ticker].preco_medio # FInt(chamada.preco)

\* the strategy call of a state, and the answers of the quote source it read
EhCruzamento == chamada.op = "estrategia_cruzamento_medias"
Barras == Len(cotacao.dados.close)

RECURSIVE SomaDesde(_, _, _)
\* the sum of the n closes of c that start at position i
SomaDesde(c, i, n) == IF n = 0 THEN 0 ELSE c[i] + SomaDesde(c, i + 1, n - 1)

\* periodo times the mean of the periodo closes that end at bar k
SomaAte(k, periodo) == SomaDesde(cotacao.dados.close, k - periodo + 1, periodo)

\* short SMA > long SMA at bar k, and short SMA < long SMA at bar k, each
\* mean sum/periodo compared by cross-multiplication
CurtaAcima(k) ==
  SomaAte(k, chamada.periodo_curto) * chamada.periodo_longo
    > SomaAte(k, chamada.periodo_longo) * chamada.periodo_curto
CurtaAbaixo(k) ==
  SomaAte(k, chamada.periodo_curto) * chamada.periodo_longo
    < SomaAte(k, chamada.periodo_longo) * chamada.periodo_curto

\* C9: with at least periodo_longo + 1 bars and a current price, the
\* crossover strategy returns COMPRAR exactly when short SMA > long SMA at
\* the last bar and short SMA <= long SMA at the bar before, VENDER exactly
\* when short SMA < long SMA at the last bar and short SMA >= long SMA at
\* the bar before, and MANTER for every other relation of the two bars.
C9_SinalDoCruzamento ==
  (/\ EhCruzamento
   /\ cotacao.dados.disponivel
   /\ Barras >= chamada.periodo_longo + 1
   /\ cotacao.preco[chamada.ticker] # Nenhum) =>
     LET cruzaParaCima == CurtaAcima(Barras) /\ ~CurtaAcima(Barras - 1)
         cruzaParaBaixo == CurtaAbaixo(Barras) /\ ~CurtaAbaixo(Barras - 1)
     IN  /\ (retorno = "COMPRAR") = cruzaParaCima
         /\ (retorno = "VENDER") = cruzaParaBaixo
         /\ (retorno = "MANTER") = (~cruzaParaCima /\ ~cruzaParaBaixo)

\* a downward crossing that starts from equal means, on four bars with the
\* periods 2 and 3
C9_Witness ==
  /\ EhCruzamento
  /\ chamada.periodo_longo = 3
  /\ cotacao.dados.disponivel
  /\ Barras >= 4
  /\ cotacao.preco[chamada.ticker] # Nenhum
  /\ ~CurtaAcima(Barras - 1)
  /\ ~CurtaAbaixo(Barras - 1)
  /\ retorno = "VENDER"

\* C10: the crossover strategy returns None, never a signal, whenever the
\* history is unavailable, has fewer than periodo_longo + 1 bars (exactly
\* periodo_longo bars included), or the current price cannot be obtained.
C10_SemDadosSemSinal ==
  (/\ EhCruzamento
   /\ \/ ~cotacao.dados.disponivel
      \/ Barras < chamada.periodo_longo + 1
      \/ cotacao.preco[chamada.ticker] = Nenhum) => retorno = "None"

\* the RSI strategy call of a state
EhRsi == chamada.op = "estrategia_rsi"

\* the delta of bar j is strictly positive for every j in de..ate
SoGanhos(de, ate) ==
  \A j \in de..ate : cotacao.dados.close[j] > cotacao.dados.close[j - 1]

\* C11: the RSI strategy returns None, never a signal, whenever the history
\* is unavailable or has fewer than periodo + 1 bars; otherwise it returns
\* COMPRAR iff the latest RSI < oversold threshold, VENDER iff the latest
\* RSI > overbought threshold, and MANTER otherwise.
C11_RsiSemDadosSemSinal ==
  (EhRsi /\ (~cotacao.dados.disponivel \/ Barras < chamada.periodo + 1))
    => retorno = "None"

\* C12: calcular_rsi is exactly 100 at every position whose trailing window
\* of periodo deltas are all strictly positive; the zero average loss shows
\* as no fault and no value that is not a number.
C12_RsiSoGanhosCem ==
  (EhRsi /\ cotacao.dados.disponivel) =>
    \A i \in (chamada.periodo + 1)..Barras :
      SoGanhos(i - chamada.periodo + 1, i) =>
        calcular_rsi(cotacao.dados.close, chamada.periodo)[i] = FInt(100)

\* an RSI call whose last window holds gains only, answered with VENDER
C12_Witness ==
  /\ EhRsi
  /\ cotacao.dados.disponivel
  /\ Barras >= chamada.periodo + 1
  /\ SoGanhos(Barras - chamada.periodo + 1, Barras)
  /\ retorno = "VENDER"

\* C17: cash >= 0 at all times for every sequence of manual buys and sells
\* of the menu, the quantity being any integer the user types (zero and
\* negative included) and the price a positive quote; a manual sell of a
\* held ticker with a negative quantity never drives cash below 0.
C17_CapitalNaoNegativoNoMenu == capital_inicial >= 0 => capital >= 0

\* C18: every open position has quantity > 0 in every state the menu's
\* manual buys and sells can reach, the quantity being any integer the user
\* types and the price a positive quote; a manual buy of quantity 0 or of a
\* negative quantity never leaves an entry with quantity <= 0.
C18_PosicoesPositivasNoMenu ==
  \A t \in Tickers : t \in DOMAIN posicoes => posicoes[t].quantidade >= 1

RECURSIVE SomaQuantidades(_, _, _)
\* the sum of the quantities of the records of kind tipo for ticker t in hist
SomaQuantidades(hist, tipo, t) ==
  IF hist = << >> THEN 0
  ELSE (IF Head(hist).tipo = tipo /\ Head(hist).ticker = t
        THEN Head(hist).quantidade ELSE 0)
       + SomaQuantidades(Tail(hist), tipo, t)

\* C19: share conservation.  In every state that comprar and vender calls
\* with quantity > 0 and price > 0 can reach, the held quantity of each
\* ticker (0 when it has no position entry) equals the quantities of its
\* COMPRA records minus the quantities of its VENDA records.
C19_ConservacaoDasAcoes ==
  \A t \in Tickers :
    Detido(posicoes, t) = SomaQuantidades(historico_trades, "COMPRA", t)
                          - SomaQuantidades(historico_trades, "VENDA", t)

\* a ticker still held after a sale of part of what was bought of it
C19_Witness ==
  \E t \in DOMAIN posicoes :
    /\ SomaQuantidades(historico_trades, "VENDA", t) > 0
    /\ SomaQuantidades(historico_trades, "COMPRA", t) > posicoes[t].quantidade
    /\ chamada.op = "vender"
    /\ retorno = "True"

RECURSIVE SomaLucros(_)
\* the sum of the 'lucro' of the VENDA records of hist
SomaLucros(hist) ==
  IF hist = << >> THEN FInt(0)
  ELSE FAdd(IF Head(hist).tipo = "VENDA" THEN Head(hist).lucro ELSE FInt(0),
            SomaLucros(Tail(hist)))

\* the book value of the open positions: the sum of quantity * average cost
ValorContabil(pos) ==
  SomaF([t \in DOMAIN pos |-> FMul(FInt(pos[t].quantidade), pos[t].preco_medio)],
        DOMAIN pos)

\* C20: book-value identity.  In every state that comprar and vender calls
\* with quantity > 0 and price > 0 can reach, cash plus the sum over the open
\* positions of quantity * average cost equals the initial capital plus the
\* sum of the realized profit 'lucro' of the VENDA records.
C20_IdentidadeContabil ==
  FAdd(FInt(capital), ValorContabil(posicoes))
    = FAdd(FInt(capital_inicial), SomaLucros(historico_trades))

\* a position bought at two prices, then partly sold at a price other than
\* its average cost
C20_Witness ==
  /\ chamada.op = "vender"
  /\ retorno = "True"
  /\ chamada.ticker \in DOMAIN posicoes
  /\ posicoes[chamada.ticker].preco_medio.den > 1
  /\ SomaLucros(historico_trades) # FInt(0)

\* a step of the runner that acts on the signal of the ticker of the loop
\* (not the interrupt, not a change of the quotes)
EhExecucao == pc = "executa" /\ pc' # "executa" /\ ~interrompido'

\* the runner goes on to the next ticker of the pass, or to the sleep that
\* ends the pass after the last ticker
SegueOLaco ==
  IF indice < Len(TickersRodar)
  THEN pc' = "sinal" /\ indice' = indice + 1
  ELSE pc' = "dorme"

\* C13: an interrupted runner prints both reports before it returns.  After
\* a KeyboardInterrupt at any step of a pass or during the sleep, rodar_bot
\* is about to call monitorar_posicoes, or has called it and is about to
\* call exibir_historico, or has called both in that order and has returned
\* normally: it never returns after an interrupt with anything else printed.
C13_InterrupcaoEmiteRelatorios ==
  interrompido =>
    \/ pc = "monitorar" /\ relatorios = << >>
    \/ pc = "historico" /\ relatorios = <<"monitorar_posicoes">>
    \/ /\ pc = "retornou"
       /\ relatorios = <<"monitorar_posicoes", "exibir_historico">>

\* a runner that traded, was interrupted with a position open, and returned
\* after the history (the last report printed)
C13_Witness ==
  /\ pc = "retornou"
  /\ interrompido
  /\ relatorios = <<"monitorar_posicoes", "exibir_historico">>
  /\ DOMAIN posicoes # {}
  /\ saida = Algum([operacoes |-> historico_trades])

\* C14: on VENDER for a ticker with an open position and an available
\* price the runner sells the whole holding in one vender call: right after
\* the step the ticker has no entry and cash has grown by held quantity *
\* price; on VENDER for a ticker without a position the ledger is unchanged.
C14_VendeTudo ==
  [][ (EhExecucao /\ sinal = "VENDER") =>
        LET t == TickersRodar[indice] IN
        IF t \notin DOMAIN posicoes THEN UNCHANGED ledger
        ELSE cotacao.preco[t] # Nenhum =>
               LET detido == posicoes[t].quantidade
                   n == Len(historico_trades')
               IN  /\ t \notin DOMAIN posicoes'
                   /\ capital' = capital + detido * cotacao.preco[t][1]
                   /\ n = Len(historico_trades) + 1
                   /\ historico_trades'[n].tipo = "VENDA"
                   /\ historico_trades'[n].ticker = t
                   /\ historico_trades'[n].quantidade = detido ]_vars

\* the runner has just sold the whole of a holding at a price other than
\* the one it was bought at
C14_Witness ==
  /\ pc \in {"sinal", "dorme"}
  /\ sinal = "VENDER"
  /\ chamada.op = "vender"
  /\ retorno = "True"
  /\ chamada.quantidade = QuantidadePorSinal
  /\ chamada.ticker \notin DOMAIN posicoes
  /\ historico_trades[1].preco # chamada.preco

\* C15: when the strategy returns None or MANTER for a ticker, or its price
\* is unavailable when the signal is acted on, that ticker's step leaves
\* cash, positions and history as they were and the runner goes on to the
\* next ticker of the pass; and a strategy call never ends the loop, whatever
\* the quote source answers.
C15_SemSinalSemEfeito ==
  [][ /\ (EhExecucao /\ (\/ sinal \in {"None", "MANTER"}
                          \/ cotacao.preco[TickersRodar[indice]] = Nenhum))
           => (UNCHANGED ledger /\ SegueOLaco)
      /\ (/\ pc = "sinal"
          /\ pc' # "sinal"
          /\ ~interrompido'
          /\ estrategia \in {"cruzamento_medias", "rsi"})
           => (pc' = "executa" /\ UNCHANGED ledger) ]_vars

\* a pass that ended on a hold although a buy was affordable, after an
\* earlier trade
C15_Witness ==
  /\ pc = "dorme"
  /\ sinal = "MANTER"
  /\ chamada.op \in {"estrategia_cruzamento_medias", "estrategia_rsi"}
  /\ historico_trades # << >>
  /\ cotacao.preco[TickersRodar[indice]] # Nenhum
  /\ capital >= QuantidadePorSinal * cotacao.preco[TickersRodar[indice]][1]

RECURSIVE ValorDeMercado(_, _, _)
\* the sum of quantity * current price over the tickers of S that are held
\* in pos and have a price in precos
ValorDeMercado(pos, precos, S) ==
  IF S = {} THEN 0
  ELSE LET t == CHOOSE x \in S : TRUE IN
       (IF t \in DOMAIN pos /\ precos[t] # Nenhum
        THEN pos[t].quantidade * precos[t][1] ELSE 0)
       + ValorDeMercado(pos, precos, S \ {t})

\* C16: monitorar_posicoes is a pure read.  On every ledger and every
\* mapping of the tickers to an available or unavailable price, the call
\* leaves cash, positions and history as they were; a ticker without a price
\* gets no line and adds nothing to the total position value; and the total
\* equity reported is cash plus the sum of quantity * current price over the
\* tickers that have a price.
C16_RelatorioSoLe ==
  [][ chamada'.op = "monitorar_posicoes" =>
        /\ UNCHANGED ledger
        /\ DOMAIN posicoes # {} =>
             LET r == saida'[1]
                 valor == ValorDeMercado(posicoes, cotacao.preco, Tickers)
             IN  /\ DOMAIN r.linhas
                      = {t \in DOMAIN posicoes : cotacao.preco[t] # Nenhum}
                 /\ r.valor_total_posicoes = FInt(valor)
                 /\ r.patrimonio_total = FInt(capital + valor) ]_vars

\* a report on two open positions, one without a price and one priced away
\* from its average cost
C16_Witness ==
  /\ chamada.op = "monitorar_posicoes"
  /\ DOMAIN posicoes = Tickers
  /\ \E t, u \in Tickers :
       /\ cotacao.preco[t] = Nenhum
       /\ cotacao.preco[u] # Nenhum
       /\ posicoes[u].preco_medio # FInt(cotacao.preco[u][1])
       /\ saida[1].patrimonio_total
            = FInt(capital + posicoes[u].quantidade * cotacao.preco[u][1])
====
